---- MODULE Spec2Model ----
(***************************************************************************)
(* ethereumjs-remote: sendTransaction, call and createSignedRawTransaction *)
(* of src/ethereum-remote.js as a state machine.                           *)
(*                                                                         *)
(* One action is one run of the JavaScript event loop: the synchronous     *)
(* body of an API call, or one web3 callback, each together with the       *)
(* promise reactions (.then/.catch) it triggers, which Node.js drains      *)
(* before it delivers the next callback.                                   *)
(***************************************************************************)
EXTENDS Integers, Sequences, FiniteSets, TLC

(* ---------------------------- bounds ----------------------------------- *)

\* caller-supplied value lies in -1..MaxValue
MaxValue == 1
\* caller-supplied gasLimit lies in -1..MaxGasLimit
MaxGasLimit == 1
\* gas prices the node may suggest: 9..MaxGasPrice
MaxGasPrice == 10
\* gas estimates the node may return: 21000, ..., 1000 * MaxGasEstimate
MaxGasEstimate == 22

Invocations == {1, 2}

Addresses == {"addr_a", "addr_b"}

\* error objects the remote node may report
Errors == {"insufficient funds", "invalid JSON RPC response"}

\* results the node may return for a message call (ABI-encoded "pong", empty)
CallResults == {"0x...0004706f6e67...", "0x"}

GasPrices == 9..MaxGasPrice

GasEstimates == {1000 * e : e \in 21..MaxGasEstimate}

(* ------------------------ JavaScript values ---------------------------- *)

\* err argument of a node-style callback when the request succeeded
Null == "null"

Absent(dflt) == [k |-> "absent", v |-> dflt]

Str(s) == [k |-> "string", v |-> s]

Num(n) == [k |-> "number", v |-> n]

Arr(a) == [k |-> "array", v |-> a]

\* the interface used by the invocations: ping(), double(uint256) and an
\* overload double(uint256,uint256); inputs is the number of input types
ContractAbi ==
  << [name |-> "ping", inputs |-> 0],
     [name |-> "double", inputs |-> 1],
     [name |-> "double", inputs |-> 2] >>

Fields ==
  {"from", "privateKey", "contractAddress", "abi", "functionName",
   "functionArguments", "provider", "web3", "value", "gasLimit", "extra"}

(* ----------------------------- schemas --------------------------------- *)

\* a Joi rule: the kind a present value must have, and whether it is required
Rule(kind, required) == [kind |-> kind, required |-> required]

schema_sendTransaction ==
  [from |-> Rule("string", TRUE),
   privateKey |-> Rule("string", TRUE),
   contractAddress |-> Rule("string", TRUE),
   abi |-> Rule("array", TRUE),
   functionName |-> Rule("string", TRUE),
   functionArguments |-> Rule("array", TRUE),
   provider |-> Rule("string", TRUE),
   value |-> Rule("number", FALSE),
   gasLimit |-> Rule("number", FALSE)]

schema_call ==
  [contractAddress |-> Rule("string", TRUE),
   abi |-> Rule("array", TRUE),
   functionName |-> Rule("string", TRUE),
   functionArguments |-> Rule("array", TRUE),
   provider |-> Rule("string", TRUE)]

schema_createSignedRawTransaction ==
  [from |-> Rule("string", TRUE),
   privateKey |-> Rule("string", TRUE),
   contractAddress |-> Rule("string", TRUE),
   abi |-> Rule("array", TRUE),
   functionName |-> Rule("string", TRUE),
   functionArguments |-> Rule("array", TRUE),
   web3 |-> Rule("any", TRUE),
   value |-> Rule("number", FALSE),
   gasLimit |-> Rule("number", FALSE)]

\* Joi.validate(params, schema).error is set: a key outside the schema is
\* present, a required key is absent, or a present key has the wrong kind
\* (Joi.number().integer() rejects a non-integer number, kind "float")
ValidateLax(p, schema) ==
  \E f \in DOMAIN schema : schema[f].required /\ p[f].k = "absent"

Validate(p, schema) ==
  \/ \E f \in Fields \ DOMAIN schema : p[f].k # "absent"
  \/ \E f \in DOMAIN schema :
       \/ schema[f].required /\ p[f].k = "absent"
       \/ /\ p[f].k # "absent"
          /\ schema[f].kind # "any"
          /\ p[f].k # schema[f].kind

(* ------------------------- lodash helpers ------------------------------ *)

OmitSourceShared(p, q) == q

\* the object handed to _.omit, after the writes made to the object _.omit
\* returned (q is that object after them): _.omit builds a new object, so the
\* writes of _.assign and of params.value = 0 do not reach the source
OmitSource(p, q) == p

\* _.omit(params, ['provider']): a copy without the provider key
Omit(p, f) == [p EXCEPT ![f] = Absent("")]

\* _.assign(copy, {web3: web3})
Assign(p, f, x) == [p EXCEPT ![f] = x]

\* _.find(abi, {name: functionName}): the index of the first descriptor with
\* that name, 0 for undefined
FindLast(abi, name) ==
  LET m == {k \in 1..Len(abi) : abi[k].name = name}
  IN IF m = {} THEN 0 ELSE CHOOSE k \in m : \A j \in m : k >= j

FindAny(abi, name) ==
  LET m == {k \in 1..Len(abi) : abi[k].name = name}
  IN IF m = {} THEN 1 ELSE CHOOSE k \in m : \A j \in m : k <= j

Find(abi, name) ==
  LET m == {k \in 1..Len(abi) : abi[k].name = name}
  IN IF m = {} THEN 0 ELSE CHOOSE k \in m : \A j \in m : k <= j

(* --------------------------- payload ----------------------------------- *)

NoData == [sig |-> [name |-> "", inputs |-> 0], args |-> <<>>]

\* new SolidityFunction('', descriptor, '').toPayload(functionArguments).data:
\* the constructor throws a TypeError on an undefined descriptor, toPayload
\* throws when the number of arguments is not the number of input types
toPayload(p) ==
  LET abi == p.abi.v
      k == Find(abi, p.functionName.v)
  IN IF k = 0
       THEN [threw |-> "TypeError", data |-> NoData]
     ELSE IF Len(p.functionArguments.v) # abi[k].inputs
       THEN [threw |-> "InvalidNumberOfSolidityArgs", data |-> NoData]
     ELSE [threw |-> Null,
           data |-> [sig |-> abi[k], args |-> p.functionArguments.v]]

(* ------------------------ hex and signing ------------------------------ *)

RECURSIVE HexDigits(_)
\* Number.prototype.toString(16) of a non-negative integer, most significant
\* digit first
HexDigits(n) ==
  IF n < 16 THEN <<n>> ELSE Append(HexDigits(n \div 16), n % 16)

\* web3.toHex(n): '0x' + digits, '-0x' + digits for a negative number
toHex(n) ==
  [neg |-> n < 0, digits |-> HexDigits(IF n < 0 THEN 0 - n ELSE n)]

RECURSIVE HexMagnitude(_)
HexMagnitude(d) ==
  IF d = <<>> THEN 0
  ELSE 16 * HexMagnitude(SubSeq(d, 1, Len(d) - 1)) + d[Len(d)]

\* the integer a hex string denotes
HexValue(h) == IF h.neg THEN 0 - HexMagnitude(h.digits) ELSE HexMagnitude(h.digits)

\* private keys secp256k1 accepts, and the address each derives
WellFormedKeys == {"key_a", "key_b"}

AddressOf(key) == IF key = "key_a" THEN "addr_a" ELSE "addr_b"

NoTx ==
  [to |-> "", data |-> NoData, value |-> toHex(0), from |-> "",
   nonce |-> toHex(0), gasLimit |-> toHex(0), gasPrice |-> toHex(0)]

RECURSIVE HexBytes(_)
\* Buffer.from(padToEven(digits), 'hex'): two digits a byte, a leading 0 added
\* to an odd number of digits
HexBytes(d) ==
  IF d = <<>> THEN <<>>
  ELSE IF Len(d) % 2 = 1 THEN << d[1] >> \o HexBytes(Tail(d))
  ELSE << 16 * d[1] + d[2] >> \o HexBytes(Tail(Tail(d)))

\* the character code of a hex digit
DigitCode(d) == IF d < 10 THEN 48 + d ELSE 87 + d

\* ethereumjs-util toBuffer of a string: the bytes of a 0x-prefixed hex
\* string; of any other string ('-0x1'), its characters
toBuffer(h) ==
  IF h.neg
    THEN << 45, 48, 120 >> \o [k \in 1..Len(h.digits) |-> DigitCode(h.digits[k])]
    ELSE HexBytes(h.digits)

RECURSIVE stripZeros(_)
stripZeros(b) ==
  IF b # <<>> /\ b[1] = 0 THEN stripZeros(Tail(b)) ELSE b

\* the setter of a numeric field of EthereumTx (allowLess, not allowZero): a
\* single zero byte becomes the empty buffer, leading zero bytes are stripped
FieldBytes(h) ==
  LET v == toBuffer(h)
  IN stripZeros(IF v = << 0 >> THEN <<>> ELSE v)

\* new EthereumTx(rawTx): the fields as the byte strings that are serialized
EthereumTx(rawTx) ==
  [nonce |-> FieldBytes(rawTx.nonce),
   gasPrice |-> FieldBytes(rawTx.gasPrice),
   gasLimit |-> FieldBytes(rawTx.gasLimit),
   to |-> rawTx.to,
   value |-> FieldBytes(rawTx.value),
   data |-> rawTx.data]

RECURSIVE DecimalDigits(_)
\* String(n) of a non-negative integer, most significant digit first
DecimalDigits(n) ==
  IF n < 10 THEN <<n>> ELSE Append(DecimalDigits(n \div 10), n % 10)

sign_and_serialize_decimal(p, nonce, payloadData, gasPrice, gasLimit) ==
  LET rawTx == [to |-> p.contractAddress.v,
                data |-> payloadData,
                value |-> toHex(p.value.v),
                from |-> p.from.v,
                nonce |-> toHex(nonce),
                gasLimit |-> toHex(gasLimit),
                gasPrice |-> [neg |-> FALSE, digits |-> DecimalDigits(gasPrice)]]
  IN IF p.privateKey.v \in WellFormedKeys
       THEN [threw |-> Null, rawTx |-> rawTx,
             serialized |-> [tx |-> rawTx, raw |-> EthereumTx(rawTx),
                             signer |-> AddressOf(p.privateKey.v)]]
       ELSE [threw |-> "SigningError", rawTx |-> rawTx,
             serialized |-> [tx |-> NoTx, raw |-> EthereumTx(NoTx),
                             signer |-> ""]]

sign_and_serialize_swapped(p, nonce, payloadData, gasPrice, gasLimit) ==
  LET rawTx == [to |-> p.contractAddress.v,
                data |-> payloadData,
                value |-> toHex(p.value.v),
                from |-> p.from.v,
                nonce |-> toHex(nonce),
                gasLimit |-> toHex(gasPrice),
                gasPrice |-> toHex(gasLimit)]
  IN IF p.privateKey.v \in WellFormedKeys
       THEN [threw |-> Null, rawTx |-> rawTx,
             serialized |-> [tx |-> rawTx, raw |-> EthereumTx(rawTx),
                             signer |-> AddressOf(p.privateKey.v)]]
       ELSE [threw |-> "SigningError", rawTx |-> rawTx,
             serialized |-> [tx |-> NoTx, raw |-> EthereumTx(NoTx),
                             signer |-> ""]]

sign_and_serialize_leaky(p, nonce, payloadData, gasPrice, gasLimit) ==
  LET rawTx == [to |-> p.contractAddress.v,
                data |-> payloadData,
                value |-> toHex(p.value.v),
                from |-> p.from.v,
                privateKey |-> p.privateKey.v,
                nonce |-> toHex(nonce),
                gasLimit |-> toHex(gasLimit),
                gasPrice |-> toHex(gasPrice)]
  IN IF p.privateKey.v \in WellFormedKeys
       THEN [threw |-> Null, rawTx |-> rawTx,
             serialized |-> [tx |-> rawTx, raw |-> EthereumTx(rawTx),
                             signer |-> AddressOf(p.privateKey.v)]]
       ELSE [threw |-> "SigningError", rawTx |-> rawTx,
             serialized |-> [tx |-> NoTx, raw |-> EthereumTx(NoTx),
                             signer |-> ""]]

sign_and_serialize_checked(p, nonce, payloadData, gasPrice, gasLimit) ==
  LET rawTx == [to |-> p.contractAddress.v,
                data |-> payloadData,
                value |-> toHex(p.value.v),
                from |-> p.from.v,
                nonce |-> toHex(nonce),
                gasLimit |-> toHex(gasLimit),
                gasPrice |-> toHex(gasPrice)]
  IN IF p.privateKey.v \in WellFormedKeys
        /\ AddressOf(p.privateKey.v) = p.from.v
       THEN [threw |-> Null, rawTx |-> rawTx,
             serialized |-> [tx |-> rawTx, raw |-> EthereumTx(rawTx),
                             signer |-> AddressOf(p.privateKey.v)]]
       ELSE [threw |-> "SigningError", rawTx |-> rawTx,
             serialized |-> [tx |-> NoTx, raw |-> EthereumTx(NoTx),
                             signer |-> ""]]

\* sign_and_serialize: the raw transaction with its numbers hex-encoded, signed
\* with the private key; tx.sign throws on a malformed key.  The signature is
\* represented by the address it recovers to.
sign_and_serialize(p, nonce, payloadData, gasPrice, gasLimit) ==
  LET rawTx == [to |-> p.contractAddress.v,
                data |-> payloadData,
                value |-> toHex(p.value.v),
                from |-> p.from.v,
                nonce |-> toHex(nonce),
                gasLimit |-> toHex(gasLimit),
                gasPrice |-> toHex(gasPrice)]
  IN IF p.privateKey.v \in WellFormedKeys
       THEN [threw |-> Null, rawTx |-> rawTx,
             serialized |-> [tx |-> rawTx, raw |-> EthereumTx(rawTx),
                             signer |-> AddressOf(p.privateKey.v)]]
       ELSE [threw |-> "SigningError", rawTx |-> rawTx,
             serialized |-> [tx |-> NoTx, raw |-> EthereumTx(NoTx),
                             signer |-> ""]]

NoSerialized == [tx |-> NoTx, raw |-> EthereumTx(NoTx), signer |-> ""]

(* ------------------------- the callers' inputs ------------------------- *)

Web3Instance == [k |-> "object", v |-> ""]

\* value and gasLimit as a caller may pass them: left out, or an integer
OptValues == {Absent(0)} \cup {Num(n) : n \in -1..MaxValue}

OptGasLimits == {Absent(0)} \cup {Num(n) : n \in -1..MaxGasLimit}

SendBase ==
  [from |-> Str("addr_a"),
   privateKey |-> Str("key_a"),
   contractAddress |-> Str("addr_c"),
   abi |-> Arr(ContractAbi),
   functionName |-> Str("double"),
   functionArguments |-> Arr(<<3>>),
   provider |-> Str("http://node"),
   web3 |-> Absent(""),
   value |-> Absent(0),
   gasLimit |-> Absent(0),
   extra |-> Absent("")]

CallBase ==
  [SendBase EXCEPT !.from = Absent(""), !.privateKey = Absent("")]

CsrtBase ==
  [SendBase EXCEPT !.provider = Absent(""), !.web3 = Web3Instance]

Case(p, defect) == [p |-> p, defect |-> defect]

\* (functionName, functionArguments) pairs: a match, another match, a name
\* the interface does not have, a match with the wrong number of arguments
FunctionCases ==
  { <<"double", <<3>> >>, <<"ping", <<>> >>, <<"nope", <<>> >>,
    <<"ping", <<3>> >>, <<"double", <<3, 4>> >> }

WithFunction(p, fc) ==
  [p EXCEPT !.functionName = Str(fc[1]), !.functionArguments = Arr(fc[2])]

\* params that pass the schema of their operation
ValidSendCases ==
  { Case([SendBase EXCEPT !.value = v, !.gasLimit = g], "none") :
      v \in OptValues, g \in OptGasLimits }
  \cup
  { Case([SendBase EXCEPT !.privateKey = Str(key), !.gasLimit = g], "none") :
      key \in {"key_b", "zz"}, g \in {Absent(0), Num(0)} }
  \cup
  { Case(WithFunction(SendBase, fc), "none") : fc \in FunctionCases }

RequiredSend ==
  {"from", "privateKey", "contractAddress", "abi", "functionName",
   "functionArguments", "provider"}

RequiredCall ==
  {"contractAddress", "abi", "functionName", "functionArguments", "provider"}

\* params that fail the schema: a required field left out, a field of the
\* wrong kind, a field the schema does not have
InvalidSendCases ==
  { Case([SendBase EXCEPT ![f] = Absent(SendBase[f].v)], "missing") :
      f \in RequiredSend }
  \cup
  { Case([SendBase EXCEPT !.from = [k |-> "number", v |-> ""]], "wrongType"),
    Case([SendBase EXCEPT !.abi = [k |-> "string", v |-> <<>>]], "wrongType"),
    Case([SendBase EXCEPT !.value = [k |-> "float", v |-> 0]], "wrongType"),
    Case([SendBase EXCEPT !.gasLimit = [k |-> "string", v |-> 0]], "wrongType"),
    Case([SendBase EXCEPT !.extra = Str("x")], "unknownField"),
    Case([SendBase EXCEPT !.web3 = Web3Instance], "unknownField") }

ValidCallCases ==
  { Case(WithFunction(CallBase, fc), "none") : fc \in FunctionCases }

InvalidCallCases ==
  { Case([CallBase EXCEPT ![f] = Absent(CallBase[f].v)], "missing") :
      f \in RequiredCall }
  \cup
  { Case([CallBase EXCEPT !.functionName = [k |-> "number", v |-> ""]],
         "wrongType"),
    Case([CallBase EXCEPT !.from = Str("addr_a")], "unknownField"),
    Case([CallBase EXCEPT !.value = Num(1)], "unknownField") }

ValidCsrtCases ==
  { Case([CsrtBase EXCEPT !.value = v, !.gasLimit = g], "none") :
      v \in {Absent(0), Num(1)}, g \in {Absent(0), Num(0)} }
  \cup
  { Case([CsrtBase EXCEPT !.privateKey = Str("zz")], "none"),
    Case(WithFunction(CsrtBase, <<"nope", <<>> >>), "none") }

InvalidCsrtCases ==
  { Case([CsrtBase EXCEPT !.web3 = Absent("")], "missing"),
    Case([CsrtBase EXCEPT !.from = Absent("")], "missing"),
    Case([CsrtBase EXCEPT !.value = [k |-> "float", v |-> 0]], "wrongType"),
    Case([CsrtBase EXCEPT !.provider = Str("http://node")], "unknownField") }

\* the second invocation is a concurrent sendTransaction from the same account
ConcurrentSendCases ==
  { Case([SendBase EXCEPT !.gasLimit = g], "none") :
      g \in {Absent(0), Num(MaxGasLimit)} }

SendCases(i) ==
  IF i = 1 THEN ValidSendCases \cup InvalidSendCases ELSE ConcurrentSendCases

CallCases(i) ==
  IF i = 1 THEN ValidCallCases \cup InvalidCallCases ELSE {}

CsrtCases(i) ==
  IF i = 1 THEN ValidCsrtCases \cup InvalidCsrtCases ELSE {}

(* ------------------------------ state ---------------------------------- *)

VARIABLES
  pc,         \* where each invocation stands: idle, the request it awaits, ...
  entry,      \* the operation the caller invoked
  defect,     \* what is wrong with the caller's params ("none": nothing)
  given,      \* the params as they were when the caller passed them
  params,     \* the caller's params object, as it is now
  work,       \* sendTransaction's copy of params, handed to
              \* createSignedRawTransaction
  frame,      \* the closure variables payloadData, nonce, gasPrice
  conn,       \* the operation constructed a Web3 connection
  wire,       \* per invocation: the requests sent to the node, the responses
              \* delivered to the callbacks and the signings, in order
  promise,    \* the promise returned to the caller
  exc,        \* an exception that left the library: to the caller, or out of
              \* a web3 callback
  debugLog,   \* per invocation: what it passed to debug(), in order
  nodeCount   \* the node's transaction count of each account

vars ==
  << pc, entry, defect, given, params, work, frame, conn, wire, promise, exc,
     debugLog, nodeCount >>

Undefined == "undefined"

NoPromise == [state |-> "none", err |-> Null, val |-> Undefined]

Pending == [state |-> "pending", err |-> Null, val |-> Undefined]

Resolved(v) == [state |-> "resolved", err |-> Null, val |-> v]

Rejected(e) == [state |-> "rejected", err |-> e, val |-> Undefined]

NoException == [where |-> "none", err |-> Null]

Request(method, body) == [ev |-> "request", method |-> method, body |-> body]

Response(method, err, res) ==
  [ev |-> "response", method |-> method, err |-> err, res |-> res]

Signing(s) ==
  [ev |-> "sign", method |-> "sign", threw |-> s.threw, rawTx |-> s.rawTx,
   raw |-> s.serialized.raw]

\* debug(msg, arg) and debug(msg)
Debug(msg, arg) == [msg |-> msg, arg |-> arg]

NoFrame == [payloadData |-> NoData, nonce |-> 0, gasPrice |-> 0]

NoParams == [f \in Fields |-> Absent("")]

Init ==
  /\ pc = [i \in Invocations |-> "idle"]
  /\ entry = [i \in Invocations |-> "none"]
  /\ defect = [i \in Invocations |-> "none"]
  /\ given = [i \in Invocations |-> NoParams]
  /\ params = [i \in Invocations |-> NoParams]
  /\ work = [i \in Invocations |-> NoParams]
  /\ frame = [i \in Invocations |-> NoFrame]
  /\ conn = [i \in Invocations |-> FALSE]
  /\ wire = [i \in Invocations |-> <<>>]
  /\ promise = [i \in Invocations |-> NoPromise]
  /\ exc = [i \in Invocations |-> NoException]
  /\ debugLog = [i \in Invocations |-> <<>>]
  /\ nodeCount = [a \in Addresses |-> 0]

(* ----------------------- pieces of the handlers ------------------------ *)

\* if (!err) ... else reject(err)
IgnoreError(err) == FALSE

IsError(err) == err # Null

\* params.hasOwnProperty(f)
HasOwnProperty(p, f) == p[f].k # "absent"

\* typeof(params.gasLimit) !== 'undefined'
GasLimitTruthy(p) == p.gasLimit.k # "absent" /\ p.gasLimit.v # 0

GasLimitNever(p) == FALSE

GasLimitSupplied(p) == p.gasLimit.k # "absent"

\* .catch(err => reject(err)) of sendTransaction
CatchWrapped(err) == "Error: " \o err

CatchHandler(err) == err

\* the object createSignedRawTransaction works on: sendTransaction's copy, or
\* the caller's own object when the caller invoked it directly
CsrtParams(i) == IF entry[i] = "sendTransaction" THEN work[i] ELSE params[i]

\* the object of web3.eth.estimateGas and of web3.eth.call
CallObjectNoData(p, payloadData) == [to |-> p.contractAddress.v, data |-> NoData]

CallObject(p, payloadData) == [to |-> p.contractAddress.v, data |-> payloadData]

\* createSignedRawTransaction up to its first remote request: validation (a
\* synchronous throw), the default of value, the payload (a throw inside the
\* promise executor rejects the promise), then getTransactionCount
CsrtStart(p) ==
  IF Validate(p, schema_createSignedRawTransaction)
    THEN [outcome |-> "throw", err |-> "ValidationError", p |-> p,
          data |-> NoData, debug |-> <<>>]
  ELSE LET q == IF ~HasOwnProperty(p, "value")
                  THEN [p EXCEPT !.value = Num(0)] ELSE p
           payload == toPayload(q)
           created == << Debug("creating transaction object", Undefined) >>
       IN IF payload.threw # Null
            THEN [outcome |-> "reject", err |-> payload.threw, p |-> q,
                  data |-> NoData, debug |-> created]
            ELSE [outcome |-> "request", err |-> Null, p |-> q,
                  data |-> payload.data, debug |-> created]

(* --------------------------- API calls ---------------------------------- *)

\* sendTransaction(params), lines 56-71, up to the first remote request
sendTransaction(i) ==
  \E c \in SendCases(i) :
    /\ pc[i] = "idle"
    /\ entry' = [entry EXCEPT ![i] = "sendTransaction"]
    /\ defect' = [defect EXCEPT ![i] = c.defect]
    /\ given' = [given EXCEPT ![i] = c.p]
    /\ UNCHANGED nodeCount
    /\ IF Validate(c.p, schema_sendTransaction)
         THEN /\ exc' = [exc EXCEPT ![i] =
                           [where |-> "caller", err |-> "ValidationError"]]
              /\ pc' = [pc EXCEPT ![i] = "thrown"]
              /\ params' = [params EXCEPT ![i] = c.p]
              /\ UNCHANGED << work, frame, conn, wire, promise, debugLog >>
         ELSE LET copy == Assign(Omit(c.p, "provider"), "web3", Web3Instance)
                  r == CsrtStart(copy)
              IN /\ conn' = [conn EXCEPT ![i] = TRUE]
                 /\ work' = [work EXCEPT ![i] = r.p]
                 /\ params' = [params EXCEPT ![i] = OmitSource(c.p, r.p)]
                 /\ exc' = exc
                 /\ debugLog' = [debugLog EXCEPT ![i] = @ \o r.debug]
                 /\ CASE r.outcome = "throw" ->
                           \* thrown inside the executor of line 62
                           /\ promise' = [promise EXCEPT ![i] = Rejected(r.err)]
                           /\ pc' = [pc EXCEPT ![i] = "settled"]
                           /\ UNCHANGED << frame, wire >>
                      [] r.outcome = "reject" ->
                           /\ promise' = [promise EXCEPT ![i] =
                                            Rejected(CatchHandler(r.err))]
                           /\ pc' = [pc EXCEPT ![i] = "settled"]
                           /\ UNCHANGED << frame, wire >>
                      [] r.outcome = "request" ->
                           /\ promise' = [promise EXCEPT ![i] = Pending]
                           /\ frame' = [frame EXCEPT ![i].payloadData = r.data]
                           /\ wire' = [wire EXCEPT ![i] =
                                << Request("getTransactionCount", r.p.from.v) >>]
                           /\ pc' = [pc EXCEPT ![i] = "getTransactionCount"]

\* createSignedRawTransaction(params) invoked by the caller, lines 124-143;
\* params is the caller's own object
createSignedRawTransaction(i) ==
  \E c \in CsrtCases(i) :
    /\ pc[i] = "idle"
    /\ entry' = [entry EXCEPT ![i] = "createSignedRawTransaction"]
    /\ defect' = [defect EXCEPT ![i] = c.defect]
    /\ given' = [given EXCEPT ![i] = c.p]
    /\ UNCHANGED << work, conn, nodeCount >>
    /\ LET r == CsrtStart(c.p)
       IN /\ params' = [params EXCEPT ![i] = r.p]
          /\ debugLog' = [debugLog EXCEPT ![i] = @ \o r.debug]
          /\ CASE r.outcome = "throw" ->
                    /\ exc' = [exc EXCEPT ![i] =
                                 [where |-> "caller", err |-> r.err]]
                    /\ pc' = [pc EXCEPT ![i] = "thrown"]
                    /\ UNCHANGED << frame, wire, promise >>
               [] r.outcome = "reject" ->
                    /\ promise' = [promise EXCEPT ![i] = Rejected(r.err)]
                    /\ pc' = [pc EXCEPT ![i] = "settled"]
                    /\ UNCHANGED << frame, wire, exc >>
               [] r.outcome = "request" ->
                    /\ promise' = [promise EXCEPT ![i] = Pending]
                    /\ frame' = [frame EXCEPT ![i].payloadData = r.data]
                    /\ wire' = [wire EXCEPT ![i] =
                         << Request("getTransactionCount", r.p.from.v) >>]
                    /\ pc' = [pc EXCEPT ![i] = "getTransactionCount"]
                    /\ exc' = exc

\* call(params), lines 83-106, up to the remote request
call(i) ==
  \E c \in CallCases(i) :
    /\ pc[i] = "idle"
    /\ entry' = [entry EXCEPT ![i] = "call"]
    /\ defect' = [defect EXCEPT ![i] = c.defect]
    /\ given' = [given EXCEPT ![i] = c.p]
    /\ params' = [params EXCEPT ![i] = c.p]
    /\ UNCHANGED << work, debugLog, nodeCount >>
    /\ IF Validate(c.p, schema_call)
         THEN /\ exc' = [exc EXCEPT ![i] =
                           [where |-> "caller", err |-> "ValidationError"]]
              /\ pc' = [pc EXCEPT ![i] = "thrown"]
              /\ UNCHANGED << frame, conn, wire, promise >>
         ELSE LET payload == toPayload(c.p)
              IN /\ conn' = [conn EXCEPT ![i] = TRUE]
                 /\ exc' = exc
                 /\ IF payload.threw # Null
                      THEN /\ promise' = [promise EXCEPT ![i] =
                                            Rejected(payload.threw)]
                           /\ pc' = [pc EXCEPT ![i] = "settled"]
                           /\ UNCHANGED << frame, wire >>
                      ELSE /\ promise' = [promise EXCEPT ![i] = Pending]
                           /\ frame' = [frame EXCEPT ![i].payloadData =
                                          payload.data]
                           /\ wire' = [wire EXCEPT ![i] =
                                << Request("call",
                                           CallObject(c.p, payload.data)) >>]
                           /\ pc' = [pc EXCEPT ![i] = "call"]

(* --------------------------- callbacks ---------------------------------- *)

\* what the node answers: an error, or a result
Answers(results) ==
  { [err |-> e, res |-> 0] : e \in Errors } \cup
  { [err |-> Null, res |-> r] : r \in results }

RejectWithResolve(i, err) == Resolved(err)

RejectWithNothing(i, err) == Pending

\* reject(err) of createSignedRawTransaction's promise as the caller sees it:
\* directly, or through the catch of sendTransaction
RejectWith(i, err) ==
  Rejected(IF entry[i] = "sendTransaction" THEN CatchHandler(err) ELSE err)

\* sign_and_serialize and resolve, lines 157-160 and 168-171, with the reaction
\* rawTransaction => sendRawTransaction(rawTransaction, web3) of line 66; w is
\* the wire so far.  An exception of sign_and_serialize is thrown inside the
\* web3 callback, outside every promise executor and reaction.
SignAndResolve(i, w, d, gasPrice, gasLimit) ==
  LET s == sign_and_serialize(CsrtParams(i), frame[i].nonce,
                              frame[i].payloadData, gasPrice, gasLimit)
      w2 == Append(w, Signing(s))
      d2 == Append(d, Debug("raw transaction:", s.rawTx))
      d3 == Append(d2, Debug("transaction signed and serialized", Undefined))
  IN IF s.threw # Null
       THEN /\ exc' = [exc EXCEPT ![i] = [where |-> "callback", err |-> s.threw]]
            /\ pc' = [pc EXCEPT ![i] = "crashed"]
            /\ wire' = [wire EXCEPT ![i] = w2]
            /\ debugLog' = [debugLog EXCEPT ![i] = @ \o d2]
            /\ promise' = promise
     ELSE IF entry[i] = "sendTransaction"
       THEN /\ wire' = [wire EXCEPT ![i] =
                          Append(w2, Request("sendRawTransaction", s.serialized))]
            /\ pc' = [pc EXCEPT ![i] = "sendRawTransaction"]
            /\ debugLog' = [debugLog EXCEPT ![i] =
                 @ \o Append(d3, Debug("sending transaction", Undefined))]
            /\ UNCHANGED << promise, exc >>
     ELSE /\ promise' = [promise EXCEPT ![i] = Resolved(s.serialized)]
          /\ pc' = [pc EXCEPT ![i] = "settled"]
          /\ wire' = [wire EXCEPT ![i] = w2]
          /\ debugLog' = [debugLog EXCEPT ![i] = @ \o d3]
          /\ exc' = exc

\* the count the node reports for an address; an address it has never seen
\* has count 0
TransactionCount(address) ==
  IF address \in Addresses THEN nodeCount[address] ELSE 0

\* the callback held back while another invocation is between its nonce and
\* the answer to its broadcast
getTransactionCountCallbackSerialized(i) ==
  /\ \A j \in Invocations \ {i} :
       pc[j] \notin {"getGasPrice", "estimateGas", "sendRawTransaction"}
  /\ pc[i] = "getTransactionCount"
  /\ \E a \in Answers({TransactionCount(CsrtParams(i).from.v)}) :
       LET w == Append(wire[i], Response("getTransactionCount", a.err, a.res))
       IN IF ~IsError(a.err)
            THEN /\ frame' = [frame EXCEPT ![i].nonce = a.res]
                 /\ wire' = [wire EXCEPT ![i] =
                               Append(w, Request("getGasPrice", <<>>))]
                 /\ pc' = [pc EXCEPT ![i] = "getGasPrice"]
                 /\ debugLog' = [debugLog EXCEPT ![i] =
                                   Append(@, Debug("nonce:", a.res))]
                 /\ promise' = promise
            ELSE /\ promise' = [promise EXCEPT ![i] = RejectWith(i, a.err)]
                 /\ pc' = [pc EXCEPT ![i] = "settled"]
                 /\ wire' = [wire EXCEPT ![i] = w]
                 /\ UNCHANGED << frame, debugLog >>
  /\ UNCHANGED << entry, defect, given, params, work, conn, exc, nodeCount >>

\* function (err, nonce) of line 143
getTransactionCountCallback(i) ==
  /\ pc[i] = "getTransactionCount"
  /\ \E a \in Answers({TransactionCount(CsrtParams(i).from.v)}) :
       LET w == Append(wire[i], Response("getTransactionCount", a.err, a.res))
       IN IF ~IsError(a.err)
            THEN /\ frame' = [frame EXCEPT ![i].nonce = a.res]
                 /\ wire' = [wire EXCEPT ![i] =
                               Append(w, Request("getGasPrice", <<>>))]
                 /\ pc' = [pc EXCEPT ![i] = "getGasPrice"]
                 /\ debugLog' = [debugLog EXCEPT ![i] =
                                   Append(@, Debug("nonce:", a.res))]
                 /\ promise' = promise
            ELSE /\ promise' = [promise EXCEPT ![i] = RejectWith(i, a.err)]
                 /\ pc' = [pc EXCEPT ![i] = "settled"]
                 /\ wire' = [wire EXCEPT ![i] = w]
                 /\ UNCHANGED << frame, debugLog >>
  /\ UNCHANGED << entry, defect, given, params, work, conn, exc, nodeCount >>

\* function (err, res) of line 148
getGasPriceCallback(i) ==
  /\ pc[i] = "getGasPrice"
  /\ \E a \in Answers(GasPrices) :
       LET w == Append(wire[i], Response("getGasPrice", a.err, a.res))
           p == CsrtParams(i)
       IN IF ~IsError(a.err)
            THEN /\ frame' = [frame EXCEPT ![i].gasPrice = a.res]
                 /\ IF GasLimitSupplied(p)
                      THEN SignAndResolve(i, w,
                             << Debug("gasPrice:", a.res),
                                Debug("user supplied gasLimit:", p.gasLimit.v) >>,
                             a.res, p.gasLimit.v)
                      ELSE /\ wire' = [wire EXCEPT ![i] =
                                 Append(w, Request("estimateGas",
                                   CallObject(p, frame[i].payloadData)))]
                           /\ pc' = [pc EXCEPT ![i] = "estimateGas"]
                           /\ debugLog' = [debugLog EXCEPT ![i] =
                                Append(@, Debug("gasPrice:", a.res))]
                           /\ UNCHANGED << promise, exc >>
            ELSE /\ promise' = [promise EXCEPT ![i] = RejectWith(i, a.err)]
                 /\ pc' = [pc EXCEPT ![i] = "settled"]
                 /\ wire' = [wire EXCEPT ![i] = w]
                 /\ UNCHANGED << frame, exc, debugLog >>
  /\ UNCHANGED << entry, defect, given, params, work, conn, nodeCount >>

\* function (err, res) of line 165
estimateGasCallback(i) ==
  /\ pc[i] = "estimateGas"
  /\ \E a \in Answers(GasEstimates) :
       LET w == Append(wire[i], Response("estimateGas", a.err, a.res))
       IN IF ~IsError(a.err)
            THEN SignAndResolve(i, w,
                   << Debug("estimated gasLimit:", a.res) >>,
                   frame[i].gasPrice, a.res)
            ELSE /\ promise' = [promise EXCEPT ![i] = RejectWith(i, a.err)]
                 /\ pc' = [pc EXCEPT ![i] = "settled"]
                 /\ wire' = [wire EXCEPT ![i] = w]
                 /\ UNCHANGED << exc, debugLog >>
  /\ UNCHANGED << entry, defect, given, params, work, frame, conn, nodeCount >>

\* length of a transaction hash as a string: '0x' and 64 hex digits
HashLength == 66

\* the hash the node returns for a transaction it accepted
TxHash(serialized) ==
  [prefix |-> "0x",
   hex |-> [k \in 1..HashLength - 2 |->
              (k + HexValue(serialized.tx.nonce)) % 16],
   keccak256 |-> serialized]

\* .then(txHash => resolve(txHash)) of sendTransaction
ThenStripped(txHash) == [txHash EXCEPT !.prefix = ""]

ThenHandler(txHash) == txHash

NoHash == TxHash(NoSerialized)

\* function (err, hash) of line 228, with the reactions of lines 67 and 68.
\* The node accepts a transaction whose nonce is not below the account's
\* count, and counts it when the nonce is the count.
sendRawTransactionCallback(i) ==
  /\ pc[i] = "sendRawTransaction"
  /\ LET sent == wire[i][Len(wire[i])].body
         account == sent.signer
         nonce == HexValue(sent.tx.nonce)
     IN \E err \in Errors \cup {Null} :
          /\ err = Null => nonce >= nodeCount[account]
          /\ LET hash == IF err = Null THEN TxHash(sent) ELSE NoHash
             IN wire' = [wire EXCEPT ![i] =
                  Append(@, Response("sendRawTransaction", err, hash))]
          /\ IF ~IsError(err)
               THEN /\ promise' = [promise EXCEPT ![i] =
                                     Resolved(ThenHandler(TxHash(sent)))]
                    /\ nodeCount' =
                         IF err = Null /\ nonce = nodeCount[account]
                           THEN [nodeCount EXCEPT ![account] = @ + 1]
                           ELSE nodeCount
               ELSE /\ promise' = [promise EXCEPT ![i] =
                                     Rejected(CatchHandler(err))]
                    /\ nodeCount' = nodeCount
          /\ pc' = [pc EXCEPT ![i] = "settled"]
  /\ UNCHANGED << entry, defect, given, params, work, frame, conn, exc,
                  debugLog >>

\* function (err, res) of line 97
callCallback(i) ==
  /\ pc[i] = "call"
  /\ \E err \in Errors \cup {Null}, r \in CallResults :
       LET res == IF err = Null THEN r ELSE Undefined
       IN /\ wire' = [wire EXCEPT ![i] = Append(@, Response("call", err, res))]
          /\ promise' = [promise EXCEPT ![i] =
                           IF ~IsError(err) THEN Resolved(res) ELSE Rejected(err)]
          /\ pc' = [pc EXCEPT ![i] = "settled"]
  /\ UNCHANGED << entry, defect, given, params, work, frame, conn, exc,
                  debugLog, nodeCount >>

(* ------------- the earlier version: callContractFunction --------------- *)

\* the schema of callContractFunction: no value, no gasLimit
schema ==
  [from |-> Rule("string", TRUE),
   privateKey |-> Rule("string", TRUE),
   contractAddress |-> Rule("string", TRUE),
   abi |-> Rule("array", TRUE),
   functionName |-> Rule("string", TRUE),
   functionArguments |-> Rule("array", TRUE),
   provider |-> Rule("string", TRUE)]

\* params of callContractFunction: the README's fields, a function the
\* interface does not have, a malformed key, and a value the schema rejects
CallContractFunctionCases(i) ==
  IF i = 1
    THEN { Case(SendBase, "none"),
           Case(WithFunction(SendBase, <<"nope", <<>> >>), "none"),
           Case([SendBase EXCEPT !.privateKey = Str("zz")], "none"),
           Case([SendBase EXCEPT !.value = Num(0)], "unknownField") }
    ELSE {}

\* the raw transaction of the earlier createSignedRawTransaction, signed as in
\* sign_and_serialize: value is the literal '0x0', nonce is
\* '0x' + res.toString(16), gasLimit is web3.toHex(res) and gasPrice is
\* '0x' + res, the digits of res as String(res) gives them
SignLegacy(p, nonce, payloadData, gasPrice, gasLimit) ==
  LET rawTx == [to |-> p.contractAddress.v,
                data |-> payloadData,
                value |-> [neg |-> FALSE, digits |-> << 0 >>],
                from |-> p.from.v,
                nonce |-> [neg |-> FALSE, digits |-> HexDigits(nonce)],
                gasLimit |-> toHex(gasLimit),
                gasPrice |-> [neg |-> FALSE, digits |-> DecimalDigits(gasPrice)]]
  IN IF p.privateKey.v \in WellFormedKeys
       THEN [threw |-> Null, rawTx |-> rawTx,
             serialized |-> [tx |-> rawTx, raw |-> EthereumTx(rawTx),
                             signer |-> AddressOf(p.privateKey.v)]]
       ELSE [threw |-> "SigningError", rawTx |-> rawTx,
             serialized |-> NoSerialized]

\* callContractFunction(params) up to the first remote request: validation (a
\* synchronous throw), the connection, the payload (a throw inside the promise
\* executor, delivered through the catch), then getTransactionCount(from)
callContractFunction(i) ==
  \E c \in CallContractFunctionCases(i) :
    /\ pc[i] = "idle"
    /\ entry' = [entry EXCEPT ![i] = "callContractFunction"]
    /\ defect' = [defect EXCEPT ![i] = c.defect]
    /\ given' = [given EXCEPT ![i] = c.p]
    /\ params' = [params EXCEPT ![i] = c.p]
    /\ UNCHANGED << work, nodeCount >>
    /\ IF Validate(c.p, schema)
         THEN /\ exc' = [exc EXCEPT ![i] =
                           [where |-> "caller", err |-> "ValidationError"]]
              /\ pc' = [pc EXCEPT ![i] = "thrown"]
              /\ UNCHANGED << frame, conn, wire, promise, debugLog >>
         ELSE LET payload == toPayload(c.p)
              IN /\ conn' = [conn EXCEPT ![i] = TRUE]
                 /\ exc' = exc
                 /\ debugLog' = [debugLog EXCEPT ![i] =
                      Append(@, Debug("creating transaction object", Undefined))]
                 /\ IF payload.threw # Null
                      THEN /\ promise' = [promise EXCEPT ![i] =
                                            Rejected(CatchHandler(payload.threw))]
                           /\ pc' = [pc EXCEPT ![i] = "settled"]
                           /\ UNCHANGED << frame, wire >>
                      ELSE /\ promise' = [promise EXCEPT ![i] = Pending]
                           /\ frame' = [frame EXCEPT ![i].payloadData =
                                                       payload.data]
                           /\ wire' = [wire EXCEPT ![i] =
                                << Request("getTransactionCount", c.p.from.v) >>]
                           /\ pc' = [pc EXCEPT ![i] = "legacy getTransactionCount"]

\* function (err, res) of the earlier getTransactionCount(from, ...)
legacyGetTransactionCountCallback(i) ==
  /\ pc[i] = "legacy getTransactionCount"
  /\ \E a \in Answers({TransactionCount(params[i].from.v)}) :
       LET w == Append(wire[i], Response("getTransactionCount", a.err, a.res))
       IN IF ~IsError(a.err)
            THEN /\ frame' = [frame EXCEPT ![i].nonce = a.res]
                 /\ wire' = [wire EXCEPT ![i] =
                               Append(w, Request("getGasPrice", <<>>))]
                 /\ pc' = [pc EXCEPT ![i] = "legacy getGasPrice"]
                 /\ promise' = promise
            ELSE /\ promise' = [promise EXCEPT ![i] =
                                  Rejected(CatchHandler(a.err))]
                 /\ pc' = [pc EXCEPT ![i] = "settled"]
                 /\ wire' = [wire EXCEPT ![i] = w]
                 /\ frame' = frame
  /\ UNCHANGED << entry, defect, given, params, work, conn, exc, debugLog,
                  nodeCount >>

\* function (err, res) of the earlier getGasPrice: the estimate is always asked
legacyGetGasPriceCallback(i) ==
  /\ pc[i] = "legacy getGasPrice"
  /\ \E a \in Answers(GasPrices) :
       LET w == Append(wire[i], Response("getGasPrice", a.err, a.res))
       IN IF ~IsError(a.err)
            THEN /\ frame' = [frame EXCEPT ![i].gasPrice = a.res]
                 /\ wire' = [wire EXCEPT ![i] =
                      Append(w, Request("estimateGas",
                        CallObject(params[i], frame[i].payloadData)))]
                 /\ pc' = [pc EXCEPT ![i] = "legacy estimateGas"]
                 /\ promise' = promise
            ELSE /\ promise' = [promise EXCEPT ![i] =
                                  Rejected(CatchHandler(a.err))]
                 /\ pc' = [pc EXCEPT ![i] = "settled"]
                 /\ wire' = [wire EXCEPT ![i] = w]
                 /\ frame' = frame
  /\ UNCHANGED << entry, defect, given, params, work, conn, exc, debugLog,
                  nodeCount >>

\* function (err, res) of the earlier estimateGas: assemble, sign, resolve, and
\* the reaction rawTransaction => sendRawTransaction(rawTransaction, web3)
legacyEstimateGasCallback(i) ==
  /\ pc[i] = "legacy estimateGas"
  /\ \E a \in Answers(GasEstimates) :
       LET w == Append(wire[i], Response("estimateGas", a.err, a.res))
           s == SignLegacy(params[i], frame[i].nonce, frame[i].payloadData,
                           frame[i].gasPrice, a.res)
           w2 == Append(w, Signing(s))
           d2 == << Debug("raw transaction:", s.rawTx) >>
       IN IF IsError(a.err)
            THEN /\ promise' = [promise EXCEPT ![i] =
                                  Rejected(CatchHandler(a.err))]
                 /\ pc' = [pc EXCEPT ![i] = "settled"]
                 /\ wire' = [wire EXCEPT ![i] = w]
                 /\ UNCHANGED << exc, debugLog >>
          ELSE IF s.threw # Null
            THEN /\ exc' = [exc EXCEPT ![i] =
                              [where |-> "callback", err |-> s.threw]]
                 /\ pc' = [pc EXCEPT ![i] = "crashed"]
                 /\ wire' = [wire EXCEPT ![i] = w2]
                 /\ debugLog' = [debugLog EXCEPT ![i] = @ \o d2]
                 /\ promise' = promise
          ELSE /\ wire' = [wire EXCEPT ![i] =
                     Append(w2, Request("sendRawTransaction", s.serialized))]
               /\ pc' = [pc EXCEPT ![i] = "sendRawTransaction"]
               /\ debugLog' = [debugLog EXCEPT ![i] = @ \o d2 \o
                    << Debug("transaction signed and serialized", Undefined),
                       Debug("sending transaction", Undefined) >>]
               /\ UNCHANGED << promise, exc >>
  /\ UNCHANGED << entry, defect, given, params, work, frame, conn, nodeCount >>

Next ==
  \E i \in Invocations :
    \/ sendTransaction(i)
    \/ createSignedRawTransaction(i)
    \/ call(i)
    \/ getTransactionCountCallback(i)
    \/ getGasPriceCallback(i)
    \/ estimateGasCallback(i)
    \/ sendRawTransactionCallback(i)
    \/ callCallback(i)

Spec == Init /\ [][Next]_vars

\* the earlier version of the module next to the present one
LegacyNext ==
  \/ Next
  \/ \E i \in Invocations :
       \/ callContractFunction(i)
       \/ legacyGetTransactionCountCallback(i)
       \/ legacyGetGasPriceCallback(i)
       \/ legacyEstimateGasCallback(i)

LegacySpec == Init /\ [][LegacyNext]_vars

\* the node's answer to the outstanding request of i reaches its callback
Deliver(i) ==
  \/ getTransactionCountCallback(i)
  \/ getGasPriceCallback(i)
  \/ estimateGasCallback(i)
  \/ sendRawTransactionCallback(i)
  \/ callCallback(i)

\* every request is eventually answered
FairSpec == Spec /\ \A i \in Invocations : WF_vars(Deliver(i))

(* ------------------------- reading the wire ----------------------------- *)

Sends == {i \in Invocations : entry[i] = "sendTransaction"}

Calls == {i \in Invocations : entry[i] = "call"}

Assemblies ==
  {i \in Invocations :
     entry[i] \in {"sendTransaction", "createSignedRawTransaction"}}

\* the positions of the wire of i that hold an event of this kind and method
At(i, ev, method) ==
  {k \in 1..Len(wire[i]) : wire[i][k].ev = ev /\ wire[i][k].method = method}

Only(S) == CHOOSE k \in S : TRUE

RequestPositions(i) == {k \in 1..Len(wire[i]) : wire[i][k].ev = "request"}

\* the kinds and methods of the events, in order
Shape(w) == [k \in 1..Len(w) |-> << w[k].ev, w[k].method >>]

Exchange(method) == << <<"request", method>>, <<"response", method>> >>

\* the events of a successful sendTransaction with these params
SuccessfulSend(p) ==
  Exchange("getTransactionCount") \o Exchange("getGasPrice") \o
  (IF p.gasLimit.k = "absent" THEN Exchange("estimateGas") ELSE <<>>) \o
  << <<"sign", "sign">> >> \o Exchange("sendRawTransaction")

\* the functionName of p names no descriptor of its abi
NoMatch(p) ==
  \A k \in 1..Len(p.abi.v) : p.abi.v[k].name # p.functionName.v

(* ------------------------------ claims ---------------------------------- *)

\* C1: a sendTransaction that resolved has issued exactly getTransactionCount
\* (from), getGasPrice, estimateGas (only when no gasLimit was supplied) and
\* sendRawTransaction, in this order, each after the response to the one
\* before; it signed after the last read and before the broadcast; and the
\* response to the broadcast is the last event: nothing is requested after it.
C1_RequestOrder ==
  \A i \in Sends :
    promise[i].state = "resolved" =>
      /\ Shape(wire[i]) = SuccessfulSend(given[i])
      /\ wire[i][1].body = given[i].from.v
      /\ pc[i] = "settled"

C1_Witness ==
  \E i \in Sends :
    /\ promise[i].state = "resolved"
    /\ given[i].gasLimit.k = "absent"
    /\ Len(wire[i]) = 9

\* C2: once createSignedRawTransaction has assembled a transaction, it has
\* issued estimateGas if and only if the caller supplied no gasLimit.  With a
\* gasLimit (any integer, 0 included) it made exactly two remote reads and the
\* transaction's gasLimit is the supplied value; without, it made exactly
\* three, asked the estimate for {to: contractAddress, data: payload}, and the
\* transaction's gasLimit is the estimate the node returned.  estimateGas is
\* never requested when a gasLimit was supplied.
C2_EstimateIffNoGasLimit ==
  \A i \in Assemblies :
    /\ At(i, "request", "estimateGas") # {} => given[i].gasLimit.k = "absent"
    /\ \A s \in At(i, "sign", "sign") :
         LET reads == {k \in RequestPositions(i) : k < s}
             tx == wire[i][s].rawTx
         IN IF given[i].gasLimit.k # "absent"
              THEN /\ Cardinality(reads) = 2
                   /\ At(i, "request", "estimateGas") = {}
                   /\ HexValue(tx.gasLimit) = given[i].gasLimit.v
              ELSE /\ Cardinality(reads) = 3
                   /\ Cardinality(At(i, "request", "estimateGas")) = 1
                   /\ wire[i][Only(At(i, "request", "estimateGas"))].body =
                        [to |-> given[i].contractAddress.v, data |-> tx.data]
                   /\ HexValue(tx.gasLimit) =
                        wire[i][Only(At(i, "response", "estimateGas"))].res

C2_Witness ==
  \E i \in Assemblies :
    /\ At(i, "sign", "sign") # {}
    /\ given[i].gasLimit.k = "number"
    /\ given[i].gasLimit.v = 0

\* C3: the transaction handed to the signer by an invocation that resolves
\* has to = contractAddress, data = the payload of (abi, functionName,
\* functionArguments), from = params.from, the nonce and the gasPrice that the
\* node returned to this very invocation, and value = params.value, 0 when the
\* caller supplied none.
C3_TransactionFields ==
  \A i \in Assemblies :
    \A s \in At(i, "sign", "sign") :
      wire[i][s].threw = Null =>
        LET tx == wire[i][s].rawTx
        IN /\ tx.to = given[i].contractAddress.v
           /\ tx.data = toPayload(given[i]).data
           /\ tx.from = given[i].from.v
           /\ HexValue(tx.nonce) =
                wire[i][Only(At(i, "response", "getTransactionCount"))].res
           /\ HexValue(tx.gasPrice) =
                wire[i][Only(At(i, "response", "getGasPrice"))].res
           /\ HexValue(tx.value) =
                IF given[i].value.k = "absent" THEN 0 ELSE given[i].value.v

\* two invocations have signed, and the node returned them different nonces
\* and different gas prices
C3_Witness ==
  /\ \A i \in Invocations :
       \E s \in At(i, "sign", "sign") : wire[i][s].threw = Null
  /\ given[1].value.k = "absent"
  /\ frame[1].nonce # frame[2].nonce
  /\ frame[1].gasPrice # frame[2].gasPrice

\* C4: in sendTransaction an error response is the last event of the
\* invocation: no request and no signing follows it, so a failed read never
\* leads to a broadcast; no method is requested twice; and the failure
\* settles the promise as rejected.
C4_FailureStops ==
  \A i \in Sends :
    /\ \A k \in 1..Len(wire[i]) :
         (wire[i][k].ev = "response" /\ wire[i][k].err # Null) =>
           /\ k = Len(wire[i])
           /\ promise[i].state = "rejected"
    /\ \A k, l \in RequestPositions(i) :
         wire[i][k].method = wire[i][l].method => k = l

C4_Witness ==
  \E i \in Sends :
    /\ Len(wire[i]) = 6
    /\ wire[i][6].ev = "response"
    /\ wire[i][6].method = "estimateGas"
    /\ wire[i][6].err # Null

\* C5: when a request of sendTransaction or call failed, the promise is
\* rejected with exactly the error the node reported for that request.
C5_ErrorUnchanged ==
  \A i \in Sends \cup Calls :
    \A k \in 1..Len(wire[i]) :
      (wire[i][k].ev = "response" /\ wire[i][k].err # Null) =>
        /\ promise[i].state = "rejected"
        /\ promise[i].err = wire[i][k].err

C5_Witness ==
  \E i \in Sends :
    /\ At(i, "response", "sendRawTransaction") # {}
    /\ promise[i].state = "rejected"
    /\ promise[i].err = "insufficient funds"

\* C6: an invocation whose params fail the schema (a required field missing,
\* a field of the wrong type, a field outside the schema) fails with the
\* validation error before it constructs a connection and never issues a
\* remote request.
C6_ValidationFirst ==
  \A i \in Invocations :
    defect[i] # "none" =>
      /\ wire[i] = <<>>
      /\ ~conn[i]
      /\ exc[i].err = "ValidationError"

C6_Witness ==
  /\ entry[1] = "sendTransaction"
  /\ defect[1] = "unknownField"
  /\ pc[1] = "thrown"

\* C7: sendTransaction never throws to its caller and no exception escapes
\* it: every failure is a rejection of the promise it returned.
C7_AlwaysRejects ==
  \A i \in Sends :
    /\ exc[i].where = "none"
    /\ promise[i].state # "none"

\* C8: when functionName names no descriptor of abi, or the payload cannot
\* be encoded, the promise is rejected and the invocation has issued no
\* remote request.
C8_PayloadFirst ==
  \A i \in Invocations :
    (/\ entry[i] # "none"
     /\ defect[i] = "none"
     /\ \/ NoMatch(given[i])
        \/ toPayload(given[i]).threw # Null) =>
      /\ promise[i].state = "rejected"
      /\ wire[i] = <<>>

C8_Witness ==
  /\ entry[1] = "call"
  /\ defect[1] = "none"
  /\ NoMatch(given[1])
  /\ promise[1].state = "rejected"

\* C9: when signing fails on a malformed private key the promise is rejected
\* with the signing error, and nothing is broadcast.
C9_SigningErrorRejects ==
  \A i \in Assemblies :
    \A s \in At(i, "sign", "sign") :
      wire[i][s].threw # Null =>
        /\ promise[i].state = "rejected"
        /\ promise[i].err = wire[i][s].threw
        /\ At(i, "request", "sendRawTransaction") = {}

\* C10: a call with valid params, a matching function and arguments the
\* function takes issues one remote request, the message call with
\* {to: contractAddress, data: payload}, and nothing else: no nonce, gas price,
\* gas estimate, signing or broadcast; the only other event is its response,
\* and on success the promise is resolved with the result of that response.
C10_CallOnly ==
  \A i \in Calls :
    (defect[i] = "none" /\ toPayload(given[i]).threw = Null) =>
      /\ Len(wire[i]) \in {1, 2}
      /\ wire[i][1] =
           Request("call", [to |-> given[i].contractAddress.v,
                            data |-> toPayload(given[i]).data])
      /\ Len(wire[i]) = 2 =>
           /\ wire[i][2].ev = "response"
           /\ wire[i][2].method = "call"
           /\ wire[i][2].err = Null =>
                /\ promise[i].state = "resolved"
                /\ promise[i].val = wire[i][2].res
      /\ promise[i].state = "resolved" => Len(wire[i]) = 2

C10_Witness ==
  \E i \in Calls :
    /\ promise[i].state = "resolved"
    /\ promise[i].val = "0x...0004706f6e67..."
    /\ given[i].functionName.v = "ping"

\* C11: whenever sendTransaction has resolved, its value is the hash that the
\* node returned in the response to this invocation's sendRawTransaction,
\* unchanged: a string of 66 characters that starts with 0x.
C11_ResolvesWithHash ==
  \A i \in Sends :
    promise[i].state = "resolved" =>
      /\ At(i, "response", "sendRawTransaction") # {}
      /\ LET r == wire[i][Only(At(i, "response", "sendRawTransaction"))]
         IN /\ r.err = Null
            /\ promise[i].val = r.res
            /\ r.res.keccak256 =
                 wire[i][Only(At(i, "request", "sendRawTransaction"))].body
      /\ promise[i].val.prefix = "0x"
      /\ 2 + Len(promise[i].val.hex) = 66

C11_Witness ==
  \E i \in Sends :
    /\ promise[i].state = "resolved"
    /\ given[i].functionName.v = "double"
    /\ given[i].functionArguments.v = <<3>>

\* C12: concurrent sendTransaction invocations of one account are not
\* coordinated.  A call is never held back by an invocation in flight, and
\* while another invocation of the same account holds a nonce it has read and
\* not yet seen its broadcast answered, this invocation's getTransactionCount
\* can be answered with that same nonce; every invocation that signed has
\* issued its broadcast with the nonce it read.
C12_NoNonceCoordination ==
  /\ \A i \in Invocations : pc[i] = "idle" => ENABLED sendTransaction(i)
  /\ \A i, j \in Sends :
       (/\ i # j
        /\ given[i].from = given[j].from
        /\ pc[i] = "getTransactionCount"
        /\ pc[j] \in {"getGasPrice", "estimateGas", "sendRawTransaction"}) =>
         ENABLED (/\ getTransactionCountCallback(i)
                  /\ frame'[i].nonce = frame[j].nonce
                  /\ pc'[i] = "getGasPrice")
  /\ \A i \in Sends :
       \A s \in At(i, "sign", "sign") :
         wire[i][s].threw = Null =>
           /\ At(i, "request", "sendRawTransaction") # {}
           /\ HexValue(wire[i][Only(At(i, "request", "sendRawTransaction"))]
                         .body.tx.nonce) = frame[i].nonce

\* both invocations, of the same account, have read the same nonce and each
\* has broadcast a transaction signed with it
C12_Witness ==
  /\ Sends = Invocations
  /\ given[1].from = given[2].from
  /\ \A i \in Invocations :
       /\ At(i, "request", "sendRawTransaction") # {}
       /\ wire[i][Only(At(i, "response", "getTransactionCount"))].res = 0
       /\ HexValue(wire[i][Only(At(i, "request", "sendRawTransaction"))]
                     .body.tx.nonce) = 0
       /\ wire[i][Only(At(i, "request", "sendRawTransaction"))].body.signer =
            "addr_a"

\* the strings a transaction object carries: all its fields but the payload
\* and the hex-encoded numbers, and the name in the payload
TxStrings(tx) ==
  { tx[f] : f \in DOMAIN tx \ {"data", "value", "nonce", "gasLimit", "gasPrice"} }
  \cup {tx.data.sig.name}

\* the strings a request carries to the node
RequestStrings(e) ==
  CASE e.method = "getTransactionCount" -> {e.body}
    [] e.method = "getGasPrice" -> {}
    [] e.method \in {"estimateGas", "call"} -> {e.body.to, e.body.data.sig.name}
    [] e.method = "sendRawTransaction" ->
         TxStrings(e.body.tx) \cup {e.body.signer}

\* the strings a debug entry carries
DebugStrings(d) ==
  {d.msg} \cup (IF d.msg = "raw transaction:" THEN TxStrings(d.arg) ELSE {})

\* C13: the private key of a sendTransaction (or createSignedRawTransaction)
\* is in no request sent to the node and in no debug entry; what is broadcast
\* is the transaction as signed, carrying the signature's address and not the
\* key.
C13_KeyStaysLocal ==
  \A i \in Assemblies :
    given[i].privateKey.k = "string" =>
      /\ \A k \in RequestPositions(i) :
           given[i].privateKey.v \notin RequestStrings(wire[i][k])
      /\ \A k \in 1..Len(debugLog[i]) :
           given[i].privateKey.v \notin DebugStrings(debugLog[i][k])
      /\ \A k \in At(i, "request", "sendRawTransaction") :
           \E s \in At(i, "sign", "sign") :
             /\ s < k
             /\ wire[i][k].body.tx = wire[i][s].rawTx
             /\ wire[i][k].body.signer = AddressOf(given[i].privateKey.v)

C13_Witness ==
  \E i \in Sends :
    /\ At(i, "request", "sendRawTransaction") # {}
    /\ \E k \in 1..Len(debugLog[i]) : debugLog[i][k].msg = "raw transaction:"
    /\ Len(debugLog[i]) = 7

\* a request of i was answered with an error
Failed(i) ==
  \E k \in 1..Len(wire[i]) :
    wire[i][k].ev = "response" /\ wire[i][k].err # Null

Settled(i) == promise[i].state \in {"resolved", "rejected"}

\* C14: a promise has one outcome.  Rejected, it carries the error and no
\* value (no nonce, gas price, estimate or signed transaction); resolved, no
\* request of the invocation has failed and nothing was thrown, and for
\* sendTransaction the broadcast has been answered without error; once
\* settled, the promise never changes again.
C14_SingleOutcome ==
  /\ [](\A i \in Invocations :
          /\ promise[i].state = "rejected" =>
               /\ promise[i].val = Undefined
               /\ promise[i].err # Null
          /\ promise[i].state = "resolved" =>
               /\ promise[i].err = Null
               /\ ~Failed(i)
               /\ exc[i].where = "none"
               /\ entry[i] = "sendTransaction" =>
                    \E k \in At(i, "response", "sendRawTransaction") :
                      wire[i][k].err = Null
               /\ entry[i] = "createSignedRawTransaction" =>
                    \E k \in At(i, "sign", "sign") : wire[i][k].threw = Null)
  /\ [][\A i \in Invocations : Settled(i) => promise'[i] = promise[i]]_vars

\* an invocation that had fetched the nonce and the gas price has failed
C14_Witness ==
  \E i \in Sends :
    /\ promise[i].state = "rejected"
    /\ At(i, "response", "getGasPrice") # {}
    /\ wire[i][Only(At(i, "response", "getGasPrice"))].err = Null
    /\ frame[i].gasPrice = 10

RECURSIVE BytesValue(_)
\* the integer a big-endian byte string denotes
BytesValue(b) ==
  IF b = <<>> THEN 0
  ELSE 256 * BytesValue(SubSeq(b, 1, Len(b) - 1)) + b[Len(b)]

\* b is the minimal big-endian encoding of n: it denotes n, has no leading
\* zero byte, and is empty for 0
MinimalBigEndian(b, n) ==
  /\ \A k \in 1..Len(b) : b[k] \in 0..255
  /\ BytesValue(b) = n
  /\ b # <<>> => b[1] # 0
  /\ n = 0 => b = <<>>

\* the integers of a signed transaction of i: the value of params (0 without),
\* the nonce and the gas price the node returned, the gasLimit of params or
\* the estimate the node returned
TxNumbers(i) ==
  [value |-> IF given[i].value.k = "absent" THEN 0 ELSE given[i].value.v,
   nonce |-> wire[i][Only(At(i, "response", "getTransactionCount"))].res,
   gasPrice |-> wire[i][Only(At(i, "response", "getGasPrice"))].res,
   gasLimit |-> IF given[i].gasLimit.k = "absent"
                  THEN wire[i][Only(At(i, "response", "estimateGas"))].res
                  ELSE given[i].gasLimit.v]

\* C15: in a signed transaction each of value, nonce, gasLimit and gasPrice
\* that is a non-negative integer is encoded as its minimal big-endian byte
\* string: no leading zero byte, and the empty string (not a zero byte)
\* for 0.
C15_MinimalEncoding ==
  \A i \in Assemblies :
    \A s \in At(i, "sign", "sign") :
      wire[i][s].threw = Null =>
        \A f \in {"value", "nonce", "gasLimit", "gasPrice"} :
          TxNumbers(i)[f] >= 0 =>
            MinimalBigEndian(wire[i][s].raw[f], TxNumbers(i)[f])

\* a transaction with value 0, nonce 0 and a gasLimit of two bytes is signed
C15_Witness ==
  \E i \in Sends :
    /\ \E s \in At(i, "sign", "sign") :
         /\ wire[i][s].threw = Null
         /\ wire[i][s].raw.value = <<>>
         /\ wire[i][s].raw.nonce = <<>>
         /\ Len(wire[i][s].raw.gasLimit) = 2
    /\ TxNumbers(i).value = 0
    /\ TxNumbers(i).nonce = 0

\* the requests of i that have not been answered
Outstanding(i) ==
  {k \in RequestPositions(i) :
     \A l \in (k + 1)..Len(wire[i]) :
       ~(wire[i][l].ev = "response" /\ wire[i][l].method = wire[i][k].method)}

\* C16: the round-trips of one sendTransaction are strictly sequential: at
\* most one request is outstanding, a response answers the request right
\* before it, and every request after the first follows (with only the
\* signing in between) a response without error.
C16_Sequential ==
  \A i \in Sends :
    /\ Cardinality(Outstanding(i)) <= 1
    /\ \A k \in 1..Len(wire[i]) :
         /\ wire[i][k].ev = "response" =>
              /\ k > 1
              /\ wire[i][k - 1].ev = "request"
              /\ wire[i][k - 1].method = wire[i][k].method
         /\ (wire[i][k].ev = "request" /\ k > 1) =>
              LET j == IF wire[i][k - 1].ev = "sign" THEN k - 2 ELSE k - 1
              IN /\ j >= 1
                 /\ wire[i][j].ev = "response"
                 /\ wire[i][j].err = Null
    /\ Outstanding(i) # {} =>
         /\ Outstanding(i) = {Len(wire[i])}
         /\ pc[i] = wire[i][Len(wire[i])].method

C16_Witness ==
  \E i \in Sends :
    /\ Outstanding(i) = {8}
    /\ wire[i][8].method = "sendRawTransaction"

\* i is a sendTransaction or call with valid params, a matching function and
\* a well-formed private key, waiting for the answer to a request
Awaiting(i) ==
  /\ entry[i] \in {"sendTransaction", "call"}
  /\ pc[i] \in {"getTransactionCount", "getGasPrice", "estimateGas",
               "sendRawTransaction", "call"}
  /\ entry[i] = "sendTransaction" => given[i].privateKey.v \in WellFormedKeys

\* C17: when every request is eventually answered, the promise of a
\* sendTransaction or call with valid params, a matching function and a
\* well-formed key eventually settles.  It settles only through answers: while
\* a request is outstanding the promise is pending, and as long as no answer
\* to that request is delivered the promise stays pending and the invocation
\* issues nothing more (no timeout, no cancellation).
C17_SettlesIffAnswered ==
  /\ \A i \in Invocations : Awaiting(i) ~> Settled(i)
  /\ [](\A i \in Invocations :
          /\ Outstanding(i) # {} => promise[i].state = "pending"
          /\ Settled(i) => Outstanding(i) = {})
  /\ [][\A i \in Invocations :
          (Awaiting(i) /\ (promise'[i] # promise[i] \/ wire'[i] # wire[i])) =>
            /\ Len(wire'[i]) > Len(wire[i])
            /\ wire'[i][Len(wire[i]) + 1].ev = "response"
            /\ wire'[i][Len(wire[i]) + 1].method = pc[i]]_vars

C17_Witness ==
  \E i \in Invocations :
    /\ entry[i] = "sendTransaction"
    /\ given[i].privateKey.v = "key_b"
    /\ promise[i].state = "resolved"
    /\ Len(wire[i]) = 9

\* the entries of abi before position k do not have this name
RECURSIVE NoneBefore(_, _, _)
NoneBefore(abi, name, k) ==
  IF k <= 1 THEN TRUE
  ELSE abi[k - 1].name # name /\ NoneBefore(abi, name, k - 1)

\* the payloads invocation i has put into requests and transactions
Payloads(i) ==
  { wire[i][k].body.data :
      k \in At(i, "request", "estimateGas") \cup At(i, "request", "call") }
  \cup { wire[i][k].rawTx.data : k \in At(i, "sign", "sign") }

\* the positions of abi, after position k, that have the name of abi[k]
LaterOverloads(abi, k) ==
  {j \in (k + 1)..Len(abi) : abi[j].name = abi[k].name}

\* C18: in call and in createSignedRawTransaction the payload is built from
\* the first entry of abi whose name is functionName.  Every payload the
\* invocation uses carries that entry and never a later one of the same name;
\* arguments that fit the first entry never fail locally, whatever overloads
\* follow it; arguments that do not fit it fail the encoding, before any
\* request, even when a later overload would take them.
C18_FirstMatch ==
  \A i \in Invocations :
    (entry[i] # "none" /\ defect[i] = "none") =>
      \A k \in 1..Len(given[i].abi.v) :
        LET abi == given[i].abi.v
            nargs == Len(given[i].functionArguments.v)
        IN (abi[k].name = given[i].functionName.v
            /\ NoneBefore(abi, given[i].functionName.v, k)) =>
             /\ \A d \in Payloads(i) :
                  /\ d.sig = abi[k]
                  /\ \A j \in LaterOverloads(abi, k) :
                       abi[j] # abi[k] => d.sig # abi[j]
             /\ nargs = abi[k].inputs =>
                  /\ exc[i].where # "caller"
                  /\ promise[i].state = "rejected" => wire[i] # <<>>
                  /\ pc[i] \in {"call", "getTransactionCount"} =>
                       frame[i].payloadData.sig = abi[k]
             /\ nargs # abi[k].inputs =>
                  /\ promise[i].state = "rejected"
                  /\ promise[i].err = "InvalidNumberOfSolidityArgs"
                  /\ wire[i] = <<>>

C18_Witness ==
  \E i \in Invocations :
    /\ entry[i] = "call"
    /\ given[i].functionName.v = "double"
    /\ LaterOverloads(given[i].abi.v, 2) # {}
    /\ Payloads(i) # {}
    /\ promise[i].state = "resolved"

\* w is an initial part of the events of s
IsPrefix(w, s) == Len(w) <= Len(s) /\ \A k \in 1..Len(w) : w[k] = s[k]

\* C19: the address of privateKey is never compared with from.  For every
\* well-formed key, whether or not its address is from, the invocation issues
\* the requests its other params determine (the count of from, the gas price,
\* the estimate when no gasLimit was given), signing never throws and signs
\* with that key, createSignedRawTransaction resolves with the signed
\* transaction and sendTransaction broadcasts it; the only rejections are the
\* payload's and the node's.
C19_NoCrossCheck ==
  \A i \in Assemblies :
    (defect[i] = "none" /\ given[i].privateKey.v \in WellFormedKeys) =>
      /\ exc[i] = NoException
      /\ IsPrefix(Shape(wire[i]), SuccessfulSend(given[i]))
      /\ \A k \in At(i, "request", "getTransactionCount") :
           wire[i][k].body = given[i].from.v
      /\ \A k \in At(i, "sign", "sign") :
           /\ wire[i][k].threw = Null
           /\ wire[i][k].rawTx.from = given[i].from.v
           /\ IF entry[i] = "sendTransaction"
                THEN /\ Len(wire[i]) > k
                     /\ wire[i][k + 1].ev = "request"
                     /\ wire[i][k + 1].method = "sendRawTransaction"
                     /\ wire[i][k + 1].body.signer =
                          AddressOf(given[i].privateKey.v)
                     /\ wire[i][k + 1].body.tx = wire[i][k].rawTx
                ELSE /\ promise[i].state = "resolved"
                     /\ promise[i].val.signer = AddressOf(given[i].privateKey.v)
                     /\ promise[i].val.tx = wire[i][k].rawTx
      /\ promise[i].state = "rejected" =>
           \/ wire[i] = <<>>
           \/ /\ wire[i][Len(wire[i])].ev = "response"
              /\ wire[i][Len(wire[i])].err = promise[i].err

C19_Witness ==
  \E i \in Sends :
    /\ AddressOf(given[i].privateKey.v) # given[i].from.v
    /\ given[i].privateKey.v \in WellFormedKeys
    /\ At(i, "request", "sendRawTransaction") # {}
    /\ promise[i].state = "resolved"

\* C20: createSignedRawTransaction leaves the params object it was called with
\* as it was: once the call has been made, whether its promise is pending,
\* resolved or rejected, every field of the caller's object, the presence of
\* value and gasLimit included, is what it was before the call.
C20_ParamsUntouched ==
  \A i \in Invocations :
    entry[i] = "createSignedRawTransaction" =>
      \A f \in Fields : params[i][f] = given[i][f]

\* value or gasLimit of p is a negative integer
NegativeAmount(p) ==
  \E f \in {"value", "gasLimit"} : p[f].k = "number" /\ p[f].v < 0

\* C21: a sendTransaction whose value or gasLimit is a negative integer fails
\* with a validation error: it issues no remote request and signs nothing.
C21_NegativeRejected ==
  \A i \in Sends :
    NegativeAmount(given[i]) =>
      /\ \/ exc[i].err = "ValidationError"
         \/ promise[i].state = "rejected" /\ promise[i].err = "ValidationError"
      /\ wire[i] = <<>>

\* what sendTransaction does with the object p up to its first request
FirstTurn(p) ==
  IF Validate(p, schema_sendTransaction) THEN << "throw" >>
  ELSE LET r == CsrtStart(Assign(Omit(p, "provider"), "web3", Web3Instance))
       IN << r.outcome, r.err, r.data >>

\* C22: sendTransaction leaves the caller's params object as it was, in every
\* outcome: each field is what the caller passed (no value and no web3 gained,
\* provider kept), the work is done on a copy without provider and with web3,
\* and a second sendTransaction with the object starts as with a fresh one.
C22_CallerUntouched ==
  \A i \in Sends :
    /\ \A f \in Fields : params[i][f] = given[i][f]
    /\ FirstTurn(params[i]) = FirstTurn(given[i])
    /\ pc[i] # "thrown" =>
         /\ work[i].provider.k = "absent"
         /\ work[i].web3 = Web3Instance
         /\ work[i].value.k = "number"
         /\ \A f \in Fields \ {"provider", "web3", "value"} :
              work[i][f] = given[i][f]

C22_Witness ==
  \E i \in Sends :
    /\ promise[i].state = "resolved"
    /\ given[i].value.k = "absent"
    /\ work[i].value = Num(0)
    /\ params[i].value.k = "absent"
    /\ params[i].web3.k = "absent"
    /\ params[i].provider.k = "string"

\* i and j read the same answers from the node: count, gas price, estimate
SameAnswers(i, j) ==
  /\ Len(wire[i]) >= 7 /\ Len(wire[j]) >= 7
  /\ wire[i][7].ev = "sign" /\ wire[j][7].ev = "sign"
  /\ \A k \in {2, 4, 6} : wire[i][k] = wire[j][k]

\* C23: callContractFunction is equivalent to sendTransaction with the same
\* fields and no value and no gasLimit: with the same answers from the node
\* both issue the same requests and sign a transaction with the same to, data,
\* value (0), nonce, gasLimit and gasPrice, nonce and gasPrice being the
\* integers the node returned, in base 16.
C23_LegacyEquivalent ==
  \A i, j \in Invocations :
    (/\ entry[i] = "callContractFunction"
     /\ entry[j] = "sendTransaction"
     /\ given[j] = given[i]
     /\ SameAnswers(i, j)) =>
      /\ \A k \in {1, 3, 5} : wire[i][k] = wire[j][k]
      /\ \A f \in {"to", "data", "value", "nonce", "gasLimit", "gasPrice"} :
           wire[i][7].rawTx[f] = wire[j][7].rawTx[f]
      /\ HexValue(wire[i][7].rawTx.value) = 0
      /\ HexValue(wire[i][7].rawTx.nonce) = wire[i][2].res
      /\ HexValue(wire[i][7].rawTx.gasPrice) = wire[i][4].res

====
